---------------------------- MODULE Spec2Model ----------------------------
(***************************************************************************)
(* Model of app/api/routes.py: the member (aluno) and check-in stores, the *)
(* wall clock, and the handlers create_aluno, create_checkin and           *)
(* predict_churn with the metrics derivation calcular_metricas_churn.      *)
(*                                                                         *)
(* Time is counted in ticks; a day has TicksPerDay ticks.  A datetime is a *)
(* tick count, a date is a day count, a timedelta is a (possibly negative) *)
(* tick count.  Python floats are modelled as exact fractions in lowest    *)
(* terms, so that two quotients are equal exactly when the records are.    *)
(***************************************************************************)
EXTENDS Integers, Sequences, FiniteSets, TLC

VARIABLES alunos, checkins, clock, resp

vars == <<alunos, checkins, clock, resp>>

---------------------------------------------------------------------------
(* Bounds of the model *)

TicksPerDay == 2
\* SpecFn: largest entry timestamp of a stored event, in ticks
MaxEntry == 3
\* SpecFn: number of stored events of the member under test
MaxEvents == 2
\* Spec: the clock stops advancing at this tick
MaxClock == 2
\* Spec: number of rows the check-in store may hold
MaxCheckins == 2

(* Program constants *)

\* SQL NULL / Python None in a date or datetime column (dates and datetimes
\* themselves are >= 0)
None == -1
DiasPorSemana == 7
SegundosPorMinuto == 60

SecondsPerTick == 86400 \div TicksPerDay

---------------------------------------------------------------------------
(* Arithmetic helpers *)

Max(a, b) == IF a >= b THEN a ELSE b

Min(a, b) == IF a <= b THEN a ELSE b

Abs(a) == IF a < 0 THEN -a ELSE a

RECURSIVE GCD(_, _)
GCD(a, b) == IF b = 0 THEN a ELSE GCD(b, a % b)

\* Python true division n / d of two numbers, d > 0, as a fraction in lowest terms
Frac(n, d) ==
    LET g == GCD(Abs(n), d)
    IN [num |-> n \div g, den |-> d \div g]

\* float + float
FracAdd(x, y) == Frac(x.num * y.den + y.num * x.den, x.den * y.den)

\* float / int
FracDiv(x, n) == Frac(x.num, x.den * n)

RECURSIVE sum(_)
\* sum(list): 0 plus the elements, left to right
sum(s) == IF s = <<>> THEN Frac(0, 1) ELSE FracAdd(sum(SubSeq(s, 1, Len(s) - 1)), s[Len(s)])

\* timedelta.days: whole days, rounded towards minus infinity
days(delta) == delta \div TicksPerDay

\* timedelta.total_seconds()
total_seconds(delta) == delta * SecondsPerTick

\* datetime.date()
date(t) == t \div TicksPerDay

\* The instant a stored enrollment date stands for when it is subtracted from a
\* datetime: midnight of that day
AsDatetime(d) == d * TicksPerDay

---------------------------------------------------------------------------
(* Request payloads *)

Emails == {"ana@gym", "bia@gym"}

\* data_matricula / data_cancelamento / data_nascimento strings a client may send
DateStrings == {"2024-01-01", "2024-01-02", "02/01/2024"}

\* data_cancelamento is optional: absent (None), or the empty string
Absent == "<None>"

ValueError == -2

\* datetime.strptime(s, "%Y-%m-%d").date(): the day number, or ValueError
strptime_date(s) ==
    CASE s = "2024-01-01" -> 0
      [] s = "2024-01-02" -> 1
      [] OTHER -> ValueError

AlunoCreate ==
    [email : Emails,
     data_nascimento : {"2024-01-01"},
     plano_id : {1},
     data_matricula : DateStrings,
     matricula_ativa : BOOLEAN,
     data_cancelamento : DateStrings \cup {Absent, ""}]

---------------------------------------------------------------------------
(* Store queries *)

\* indices of the rows of Checkin whose aluno_id is the given matricula
Historico(db, matricula) == {i \in 1..Len(db) : db[i].aluno_id = matricula}

\* every order in which a set of row indices can be listed
Ordens(S) ==
    {p \in [1..Cardinality(S) -> S] : \A i, j \in 1..Cardinality(S) : p[i] = p[j] => i = j}

\* db.query(Checkin).filter(Checkin.aluno_id == m).all(): the matching rows, in an
\* order the store chooses
query_checkins(db, matricula) ==
    {[i \in 1..Len(p) |-> db[p[i]]] : p \in Ordens(Historico(db, matricula))}

\* db.query(Aluno).filter(Aluno.matricula == id).first(): row index, 0 when absent
query_aluno(db, id) ==
    IF \E i \in 1..Len(db) : db[i].matricula = id
    THEN CHOOSE i \in 1..Len(db) : db[i].matricula = id /\ \A j \in 1..(i - 1) : db[j].matricula # id
    ELSE 0

\* variant: only the most recently stored row is compared
email_cadastrado_M(db, e) == Len(db) > 0 /\ db[Len(db)].email = e

\* db.query(Aluno).filter(Aluno.email == e).first() is not None
email_cadastrado(db, e) == \E i \in 1..Len(db) : db[i].email = e

---------------------------------------------------------------------------
(* calcular_metricas_churn *)

\* variant: the entry timestamps in the order the store returned them
datas_checkins_M(cks) == [i \in 1..Len(cks) |-> cks[i].data_hora_entrada]

\* datas_checkins: the entry timestamps, sorted ascending
datas_checkins(cks) ==
    SortSeq([i \in 1..Len(cks) |-> cks[i].data_hora_entrada], LAMBDA a, b : a < b)

\* variant: the number of weeks rounded up instead of down
semanas_M(hoje, primeira_data) ==
    Max(1, (days(hoje - primeira_data) + DiasPorSemana - 1) \div DiasPorSemana)

semanas(hoje, primeira_data) == Max(1, days(hoje - primeira_data) \div DiasPorSemana)

frequencia_semanal(hoje, cks) == Frac(Len(cks), semanas(hoje, datas_checkins(cks)[1]))

tempo_ultimo_checkin(hoje, cks) ==
    LET datas == datas_checkins(cks)
    IN days(hoje - datas[Len(datas)])

\* the durations, in minutes, of the events that have an exit timestamp
duracoes(cks) ==
    LET com_saida == SelectSeq(cks, LAMBDA c : c.data_hora_saida # None)
    IN [i \in 1..Len(com_saida) |->
          Frac(total_seconds(com_saida[i].data_hora_saida - com_saida[i].data_hora_entrada),
               SegundosPorMinuto)]

\* variant: the mean taken over all events, with or without an exit timestamp
duracao_media_M(cks) ==
    LET ds == duracoes(cks)
    IN IF ds # <<>> THEN FracDiv(sum(ds), Len(cks)) ELSE Frac(0, 1)

duracao_media(cks) ==
    LET ds == duracoes(cks)
    IN IF ds # <<>> THEN FracDiv(sum(ds), Len(ds)) ELSE Frac(0, 1)

\* variant: the subtraction the other way round
tempo_sem_checkins_M(hoje, aluno) == days(AsDatetime(aluno.data_matricula) - hoje)

\* the branch of a member without check-ins
tempo_sem_checkins(hoje, aluno) == days(hoje - AsDatetime(aluno.data_matricula))

\* variant: the label taken from the enrollment-active flag
churn_M(aluno) == IF ~aluno.matricula_ativa THEN 1 ELSE 0

churn(aluno) == IF aluno.data_cancelamento # None THEN 1 ELSE 0

\* cks is the result of the check-in query, in the order the store returned it
calcular_metricas_churn(hoje, aluno, cks) ==
    IF cks # <<>>
    THEN [frequencia_semanal |-> frequencia_semanal(hoje, cks),
          tempo_ultimo_checkin |-> tempo_ultimo_checkin(hoje, cks),
          duracao_media |-> duracao_media(cks),
          plano_id |-> aluno.plano_id,
          churn |-> churn(aluno)]
    ELSE [frequencia_semanal |-> Frac(0, 1),
          tempo_ultimo_checkin |-> tempo_sem_checkins(hoje, aluno),
          duracao_media |-> Frac(0, 1),
          plano_id |-> aluno.plano_id,
          churn |-> churn(aluno)]

---------------------------------------------------------------------------
(* Responses *)

\* resp is the request handled by the latest step together with its outcome
\* (HTTP status and returned body); NoResp when the latest step handled no request.
NoBody == [vazio |-> TRUE]

NoResp == [op |-> "none", status |-> 0, req |-> NoBody, body |-> NoBody]

Response(op, status, req, body) ==
    [op |-> op, status |-> status, req |-> req, body |-> body]

---------------------------------------------------------------------------
(* Handlers *)

\* GET /churn/{aluno_id}
predict_churn(aluno_id) ==
    LET i == query_aluno(alunos, aluno_id)
    IN /\ IF i = 0
          THEN resp' = Response("predict_churn", 404, [aluno_id |-> aluno_id], NoBody)
          ELSE \E cks \in query_checkins(checkins, alunos[i].matricula) :
                  resp' = Response("predict_churn", 200, [aluno_id |-> aluno_id],
                                   calcular_metricas_churn(clock, alunos[i], cks))
       /\ UNCHANGED <<alunos, checkins, clock>>

\* the Aluno row built from the parsed payload; the store assigns the next matricula
novo_aluno(db, a) ==
    [matricula |-> Len(db) + 1,
     email |-> a.email,
     plano_id |-> a.plano_id,
     data_matricula |-> strptime_date(a.data_matricula),
     matricula_ativa |-> a.matricula_ativa,
     data_cancelamento |->
        IF a.data_cancelamento \notin {Absent, ""}
        THEN strptime_date(a.data_cancelamento) ELSE None]

\* some strptime call of the handler raises ValueError
data_invalida(a) ==
    \/ strptime_date(a.data_nascimento) = ValueError
    \/ strptime_date(a.data_matricula) = ValueError
    \/ a.data_cancelamento \notin {Absent, ""} /\ strptime_date(a.data_cancelamento) = ValueError

\* POST /alunos
create_aluno(a) ==
    /\ IF email_cadastrado(alunos, a.email)
       THEN /\ resp' = Response("create_aluno", 400, [email |-> a.email], NoBody)
            /\ UNCHANGED alunos
       ELSE IF data_invalida(a)
            THEN /\ resp' = Response("create_aluno", 500, [email |-> a.email], NoBody)
                 /\ UNCHANGED alunos
            ELSE /\ alunos' = Append(alunos, novo_aluno(alunos, a))
                 /\ resp' = Response("create_aluno", 200, [email |-> a.email],
                                          novo_aluno(alunos, a))
    /\ UNCHANGED <<checkins, clock>>

\* variant: the day of cancellation itself is refused too
matricula_inativa_M(aluno, data_atual) ==
    /\ ~aluno.matricula_ativa
    /\ \/ aluno.data_cancelamento = None
       \/ date(data_atual) >= aluno.data_cancelamento

\* the enrollment rule of create_checkin: TRUE when the check-in is refused
matricula_inativa(aluno, data_atual) ==
    /\ ~aluno.matricula_ativa
    /\ \/ aluno.data_cancelamento = None
       \/ date(data_atual) > aluno.data_cancelamento

\* variant: the new row is closed at once
novo_checkin_M(aluno_id, agora) ==
    [aluno_id |-> aluno_id, data_hora_entrada |-> agora, data_hora_saida |-> agora]

\* the Checkin row of an accepted check-in
novo_checkin(aluno_id, agora) ==
    [aluno_id |-> aluno_id, data_hora_entrada |-> agora, data_hora_saida |-> None]

\* POST /checkins.  The handler reads the clock twice: data_atual for the
\* enrollment rule, and again for the entry timestamp of the new row.
create_checkin(aluno_id) ==
    LET i == query_aluno(alunos, aluno_id)
        req == [aluno_id |-> aluno_id]
    IN IF i = 0
       THEN /\ resp' = Response("create_checkin", 404, req, NoBody)
            /\ UNCHANGED <<alunos, checkins, clock>>
       ELSE IF matricula_inativa(alunos[i], clock)
            THEN /\ resp' = Response("create_checkin", 400, req, NoBody)
                 /\ UNCHANGED <<alunos, checkins, clock>>
            ELSE /\ Len(checkins) < MaxCheckins
                 /\ \E agora \in clock..Min(clock + 1, MaxClock) :
                       /\ clock' = agora
                       /\ checkins' = Append(checkins, novo_checkin(aluno_id, agora))
                       /\ resp' = Response("create_checkin", 200, req,
                                           novo_checkin(aluno_id, agora))
                 /\ UNCHANGED alunos

\* time passes between requests
Tick ==
    /\ clock < MaxClock
    /\ clock' = clock + 1
    /\ resp' = NoResp
    /\ UNCHANGED <<alunos, checkins>>

---------------------------------------------------------------------------
(* Specification of the service: empty stores, requests one at a time *)

Init ==
    /\ alunos = <<>>
    /\ checkins = <<>>
    /\ clock = 0
    /\ resp = NoResp

Next ==
    \/ \E a \in AlunoCreate : create_aluno(a)
    \/ \E id \in 1..3 : create_checkin(id)
    \/ \E id \in 1..3 : predict_churn(id)
    \/ Tick

Spec == Init /\ [][Next]_vars

\* sequences of create_aluno calls alone
NextAlunos == \E a \in AlunoCreate : create_aluno(a)

SpecAlunos == Init /\ [][NextAlunos]_vars

---------------------------------------------------------------------------
(* Specification of the metrics derivation over arbitrary stored histories *)

Membros ==
    [matricula : {1}, email : {"ana@gym"}, plano_id : {1},
     data_matricula : {1},
     matricula_ativa : BOOLEAN,
     data_cancelamento : {None, 1}]

Eventos(matricula) ==
    {[aluno_id |-> matricula, data_hora_entrada |-> e, data_hora_saida |-> s] :
        e \in 0..MaxEntry, s \in {None}} \cup
    {[aluno_id |-> matricula, data_hora_entrada |-> e, data_hora_saida |-> e + d] :
        e \in 0..MaxEntry, d \in {1, 3}}

\* a row of another member, later and longer than every event of the member under test
EventoAlheio ==
    [aluno_id |-> 2, data_hora_entrada |-> MaxEntry + 1, data_hora_saida |-> MaxEntry + 3]

SeqsUpTo(S, n) == UNION {[1..k -> S] : k \in 0..n}

\* instants at which the derivation is invoked: the days around the week boundaries
Instantes == {d * TicksPerDay + h : d \in {0, 1, 7, 13, 14}, h \in 0..(TicksPerDay - 1)}

InitFn ==
    /\ alunos \in {<<m>> : m \in Membros}
    /\ \E own \in SeqsUpTo(Eventos(1), MaxEvents), other \in {<<>>, <<EventoAlheio>>} :
          checkins = other \o own
    /\ clock \in Instantes
    /\ resp = NoResp

NextFn == \E id \in 1..2 : predict_churn(id)

SpecFn == InitFn /\ [][NextFn]_vars

---------------------------------------------------------------------------
(* Reference definitions used to state the properties.  They are written   *)
(* from the meaning of the quantities (minimum, maximum, floor, mean), not *)
(* from the steps of the code.                                             *)

\* floor(a / b) for b > 0
Floor(a, b) ==
    CHOOSE k \in (0 - Abs(a) - 1)..(Abs(a) + 1) : k * b <= a /\ a < (k + 1) * b

WholeDays(delta) == Floor(delta, TicksPerDay)

\* the latest step answered GET /churn/{aluno_id} with a feature record
Respondeu == resp.op = "predict_churn" /\ resp.status = 200

\* the member the latest request names
Membro == alunos[CHOOSE i \in 1..Len(alunos) : alunos[i].matricula = resp.req.aluno_id]

\* the stored events of that member
Proprios == {i \in 1..Len(checkins) : checkins[i].aluno_id = resp.req.aluno_id}

Entradas == {checkins[i].data_hora_entrada : i \in Proprios}

ComSaida == {i \in Proprios : checkins[i].data_hora_saida # None}

RECURSIVE TotalTicks(_)
TotalTicks(S) ==
    IF S = {} THEN 0
    ELSE LET i == CHOOSE x \in S : TRUE
         IN (checkins[i].data_hora_saida - checkins[i].data_hora_entrada) + TotalTicks(S \ {i})

Zero == [num |-> 0, den |-> 1]

---------------------------------------------------------------------------
(* Properties of the metrics derivation, checked under SpecFn *)

\* C1: for a non-empty history, weekly_frequency is exactly
\* count(events) / max(1, floor(wholeDays(now - earliest entry) / 7)), the earliest
\* entry being the minimum over all the member's events; a history spanning fewer
\* than 14 whole days divides by 1, and the divisor is never 0.
C1_FrequenciaSemanal ==
    (Respondeu /\ Proprios # {}) =>
        LET earliest == CHOOSE e \in Entradas : \A x \in Entradas : e <= x
            span == WholeDays(clock - earliest)
            weeks == Floor(span, 7)
            divisor == IF weeks > 1 THEN weeks ELSE 1
            f == resp.body.frequencia_semanal
        IN /\ divisor # 0
           /\ f.den > 0
           /\ f.num * divisor = Cardinality(Proprios) * f.den
           /\ span < 14 => f = [num |-> Cardinality(Proprios), den |-> 1]

\* two events stored latest first, of which only the earlier one is two weeks old:
\* the frequency is 2 / 2
C1_Witness ==
    /\ Respondeu
    /\ Cardinality(Proprios) = 2
    /\ \E i, j \in Proprios :
          /\ i < j
          /\ checkins[i].data_hora_entrada > checkins[j].data_hora_entrada
          /\ WholeDays(clock - checkins[j].data_hora_entrada) = 14
          /\ WholeDays(clock - checkins[i].data_hora_entrada) = 13
    /\ resp.body.frequencia_semanal = [num |-> 1, den |-> 1]

\* C2: for a member without check-in events, weekly_frequency = 0,
\* average_duration = 0 and days_since_last is the whole number of days between
\* now and the enrollment start date.
C2_SemCheckins ==
    (Respondeu /\ Proprios = {}) =>
        /\ resp.body.frequencia_semanal = Zero
        /\ resp.body.duracao_media = Zero
        /\ resp.body.tempo_ultimo_checkin =
              WholeDays(clock - Membro.data_matricula * TicksPerDay)

\* a member without events, 12 days after enrollment, while the store holds a row
\* of another member
C2_Witness ==
    /\ Respondeu
    /\ Proprios = {}
    /\ checkins # <<>>
    /\ resp.body.tempo_ultimo_checkin = 12

\* C3: average_duration is the mean of (exit - entry) in minutes over the member's
\* events that have an exit timestamp; an event without one counts in neither the
\* sum nor the count; 0 when no event has an exit timestamp.
C3_DuracaoMedia ==
    Respondeu =>
        LET m == resp.body.duracao_media
            n == Cardinality(ComSaida)
        IN IF n = 0
           THEN m = Zero
           ELSE /\ m.den > 0
                /\ m.num * 60 * n = TotalTicks(ComSaida) * SecondsPerTick * m.den

\* two events, one of them without an exit timestamp, and a positive mean
C3_Witness ==
    /\ Respondeu
    /\ Cardinality(Proprios) = 2
    /\ Cardinality(ComSaida) = 1
    /\ resp.body.duracao_media.num > 0

\* C4: the churn label is 1 if and only if the member's cancellation date is set,
\* whatever the enrollment-active flag and whether or not there are check-ins.
C4_Churn ==
    Respondeu =>
        /\ resp.body.churn \in {0, 1}
        /\ resp.body.churn = 1 <=> Membro.data_cancelamento # None

\* an active member with a cancellation date and with check-ins is labelled 1
C4_Witness ==
    /\ Respondeu
    /\ Membro.matricula_ativa
    /\ Membro.data_cancelamento # None
    /\ Proprios # {}
    /\ resp.body.churn = 1

\* C6: the derivation fails, and returns no feature record, whenever now precedes
\* the entry timestamp of one of the member's events.
C6_InvalidInput ==
    (/\ resp.op = "predict_churn"
     /\ \E i \in Proprios : clock < checkins[i].data_hora_entrada)
        => resp.status # 200

\* C8: for a non-empty history, days_since_last is the whole number of days
\* between now and the latest entry timestamp (never an exit timestamp), in every
\* order in which the store returns the events.
C8_UltimoCheckin ==
    (Respondeu /\ Proprios # {}) =>
        LET latest == CHOOSE e \in Entradas : \A x \in Entradas : x <= e
        IN resp.body.tempo_ultimo_checkin = WholeDays(clock - latest)

\* two events stored latest first, a day apart, the earlier one left after the
\* later one was entered
C8_Witness ==
    /\ Respondeu
    /\ \E i, j \in Proprios :
          /\ i < j
          /\ WholeDays(clock - checkins[i].data_hora_entrada)
                < WholeDays(clock - checkins[j].data_hora_entrada)
          /\ checkins[j].data_hora_saida > checkins[i].data_hora_entrada
          /\ resp.body.tempo_ultimo_checkin = WholeDays(clock - checkins[i].data_hora_entrada)

---------------------------------------------------------------------------
(* Properties of the handlers, checked under Spec (C10: under SpecAlunos) *)

\* C5: for an existing member, create_checkin answers 400 exactly when the
\* enrollment-active flag is false and (the cancellation date is absent or the
\* current date is strictly after it); otherwise the check-in is accepted.
C5_MatriculaInativa ==
    [][(resp'.op = "create_checkin" /\ resp'.status # 404) =>
          LET a == alunos[CHOOSE i \in 1..Len(alunos) :
                             alunos[i].matricula = resp'.req.aluno_id]
              hoje == WholeDays(clock)
          IN /\ resp'.status \in {200, 400}
             /\ resp'.status = 400 <=>
                   (/\ a.matricula_ativa = FALSE
                    /\ (a.data_cancelamento = None \/ hoje > a.data_cancelamento))]_vars

\* an inactive member whose cancellation date is today checks in
C5_Witness ==
    /\ resp.op = "create_checkin"
    /\ resp.status = 200
    /\ ~Membro.matricula_ativa
    /\ Membro.data_cancelamento = WholeDays(resp.body.data_hora_entrada)
    /\ Membro.data_cancelamento = WholeDays(clock)

\* C7: every feature record has weekly_frequency >= 0, days_since_last >= 0 and
\* average_duration >= 0, for any member stored by create_aluno.
C7_NaoNegativo ==
    Respondeu =>
        /\ resp.body.frequencia_semanal.num >= 0
        /\ resp.body.tempo_ultimo_checkin >= 0
        /\ resp.body.duracao_media.num >= 0

\* C9: a rejected create_checkin leaves the check-in store unchanged; an accepted
\* one appends exactly one event of the requested member, with an entry timestamp
\* and no exit timestamp; the earlier events and the members are unchanged.
C9_Frame ==
    [][resp'.op = "create_checkin" =>
          /\ alunos' = alunos
          /\ resp'.status \in {200, 400, 404}
          /\ resp'.status \in {400, 404} => checkins' = checkins
          /\ resp'.status = 200 =>
                /\ Len(checkins') = Len(checkins) + 1
                /\ SubSeq(checkins', 1, Len(checkins)) = checkins
                /\ checkins'[Len(checkins')].aluno_id = resp'.req.aluno_id
                /\ checkins'[Len(checkins')].data_hora_entrada \in clock..clock'
                /\ checkins'[Len(checkins')].data_hora_saida = None]_vars

\* a second check-in is accepted and a later one is rejected
C9_Witness ==
    /\ resp.op = "create_checkin"
    /\ resp.status = 400
    /\ Len(checkins) = 2

EmailsUnicos(db) == \A i, j \in 1..Len(db) : db[i].email = db[j].email => i = j

DatasValidas(a) ==
    /\ a.data_nascimento \in {"2024-01-01", "2024-01-02"}
    /\ a.data_matricula \in {"2024-01-01", "2024-01-02"}
    /\ a.data_cancelamento \in {Absent, "", "2024-01-01", "2024-01-02"}

Registrado(e) == e \in {alunos[i].email : i \in 1..Len(alunos)}

\* C10 as stated: no two stored members share an email; a create_aluno call whose
\* email is registered answers 400 and adds no member, and a call with a new email
\* adds exactly one member.
C10_Original ==
    [][\A a \in AlunoCreate : create_aluno(a) =>
          /\ EmailsUnicos(alunos')
          /\ IF Registrado(a.email)
             THEN resp'.status = 400 /\ alunos' = alunos
             ELSE /\ Len(alunos') = Len(alunos) + 1
                  /\ SubSeq(alunos', 1, Len(alunos)) = alunos]_vars

\* C10 as amended: no two stored members share an email; a create_aluno call whose
\* email is registered answers 400 and adds no member; a call with a new email
\* adds exactly one member, with that email, when its date strings parse, and
\* otherwise fails and adds no member.
C10_EmailUnico ==
    [][\A a \in AlunoCreate : create_aluno(a) =>
          /\ EmailsUnicos(alunos')
          /\ IF Registrado(a.email)
             THEN resp'.status = 400 /\ alunos' = alunos
             ELSE IF DatasValidas(a)
                  THEN /\ resp'.status = 200
                       /\ Len(alunos') = Len(alunos) + 1
                       /\ SubSeq(alunos', 1, Len(alunos)) = alunos
                       /\ alunos'[Len(alunos')].email = a.email
                  ELSE resp'.status = 500 /\ alunos' = alunos]_vars

\* two members are stored and a call repeating an email is rejected
C10_Witness ==
    /\ resp.op = "create_aluno"
    /\ resp.status = 400
    /\ Len(alunos) = 2
    /\ alunos[1].email # alunos[2].email

=============================================================================
